---------------------------- MODULE Spec2Model ----------------------------
(***************************************************************************)
(* Timing-based probes of the memory hierarchy (cache_info.c,              *)
(* cache_info_cores.c, tlb_info.c): the pointer-chase construction, the    *)
(* breakpoint detectors that scan a measured latency curve, and the        *)
(* majority vote over ten TLB probe runs.                                  *)
(*                                                                         *)
(* Latencies are doubles in the source.  The model keeps them as           *)
(* nonnegative integers (ticks) and a ratio a/b as the pair <<a, b>>; the  *)
(* comparisons against 1.3, 1.25, 1.5 and 0.6 are done on the pair with    *)
(* the IEEE outcomes of a division by zero: x/0 = +inf for x > 0, and      *)
(* 0/0 = NaN, for which every comparison is false.  C arrays are 0-based:  *)
(* At(q, i) reads element i of the sequence that models the array.         *)
(***************************************************************************)
EXTENDS Integers, Sequences, FiniteSets

VARIABLES
  probe,        \* the function under execution
  pc,           \* its position: "measure", "scan", "done", "crashed", ...
  times,        \* the latency curve norm_times[] / times[], in sweep order
  jumps,        \* number of level changes along the curve measured so far
  measured,     \* number of curve entries the sweep loop has written
  alloc_failed, \* an allocation of this probe has returned NULL
  detected,     \* the probe's return value (line size, ways, page size, TLB entries)
  l1_size, l2_size, l3_size,   \* the out-parameters of probe_cache_sizes
  s,            \* the index of the detection loop of probe_cache_sizes
  unwritten_zero, \* the never-written entry times[s-1] read last held 0.0
  reads,        \* curve indices read by the detection scan
  count,        \* create_pointer_chase: number of elements
  array,        \* create_pointer_chase: the successor array;
                \* probe_tlb_size: the word at the start of each page of array
  i,            \* index of the Fisher-Yates loop
  results,      \* tlb_info.c main: results[] of the probe_tlb_size runs
  tlb_size,     \* tlb_info.c main: the voted TLB size
  page_size,    \* probe_tlb_size: its parameter
  num_pages,    \* probe_tlb_size: the page count under test
  order,        \* probe_tlb_size: order[], the shuffled page numbers
  idx,          \* probe_tlb_size: the byte offset the traversal stands at
  accessed,     \* probe_tlb_size: accesses done by the running traversal
  iter          \* probe_tlb_size: index of the timed traversal

vars == <<probe, pc, times, jumps, measured, alloc_failed, detected,
          l1_size, l2_size, l3_size, s, unwritten_zero, reads, count, array, i,
          results, tlb_size, page_size, num_pages, order, idx, accessed,
          iter>>

curveVars == <<times, jumps, measured>>
sizeVars  == <<l1_size, l2_size, l3_size, s, unwritten_zero>>
chaseVars == <<count, array, i>>
voteVars  == <<results, tlb_size>>
tlbVars   == <<page_size, num_pages, order, idx, accessed, iter>>

-----------------------------------------------------------------------------
(* Bounds of the model *)

\* Level changes allowed along one measured curve of the general family.
MaxJumps == 2
\* Latency of the first configuration of a sweep, in ticks.
Base == 1000
\* Largest element count handed to create_pointer_chase.
MaxCount == 4
\* Number of distinct values a probe_tlb_size run may return in the vote.
NumVoteVals == 2
\* Largest page count of the page chase of probe_tlb_size.
MaxPages == 4

-----------------------------------------------------------------------------
(* Sweep lists and defaults of the source *)

strides == <<8, 16, 32, 64, 128, 256, 512, 1024>>
strides_cores == <<8, 16, 32, 64, 128, 256>>
sizes == <<4*1024, 8*1024, 16*1024, 32*1024, 48*1024, 64*1024, 96*1024,
           128*1024, 192*1024, 256*1024, 384*1024, 512*1024, 768*1024,
           1024*1024, 1536*1024, 2*1024*1024, 3*1024*1024, 4*1024*1024,
           6*1024*1024, 8*1024*1024, 12*1024*1024, 16*1024*1024,
           24*1024*1024, 32*1024*1024>>
sizes_cores == <<8*1024, 16*1024, 32*1024, 48*1024, 64*1024, 96*1024,
                 128*1024, 192*1024, 256*1024, 384*1024, 512*1024, 768*1024,
                 1024*1024, 2*1024*1024, 4*1024*1024, 8*1024*1024,
                 16*1024*1024>>
ways_to_test == <<2, 4, 6, 8, 10, 12, 14, 16, 20, 24, 32>>
page_strides == <<512, 1024, 2048, 4096, 8192, 16384>>
pages_to_test == <<8, 16, 32, 64, 128, 256, 512, 1024, 2048, 4096>>

LineDefault == 64
AssocDefault == 8
PageDefault == 4096
TlbDefault == 64
NumTrials == 10

Probes == {"line", "line_cores", "sizes", "sizes_cores", "assoc", "page", "tlb"}

\* The two probe_cache_sizes: of cache_info.c and of cache_info_cores.c.
SizeProbes == {"sizes", "sizes_cores"}

\* The sweep list of a probe: its candidate values.
Sweep(p) ==
  CASE p = "line" -> strides
    [] p = "line_cores" -> strides_cores
    [] p = "sizes" -> sizes
    [] p = "sizes_cores" -> sizes_cores
    [] p = "assoc" -> ways_to_test
    [] p = "page" -> page_strides
    [] p = "tlb" -> pages_to_test

\* Element i (0-based) of a C array; an index outside the array reads a
\* value the program does not control, taken as 0 here and recorded in reads.
At(q, k) == IF k + 1 \in DOMAIN q THEN q[k + 1] ELSE 0

Range(q) == {q[k] : k \in DOMAIN q}

-----------------------------------------------------------------------------
(* Ratios of doubles *)

\* a/b > num/den, as the C comparison `x[..] / x[..] > 1.3` decides it.
RatioGT(a, b, num, den) == IF b = 0 THEN a > 0 ELSE a * den > num * b

\* a/b < num/den, as the C comparison decides it.
RatioLT(a, b, num, den) == IF b = 0 THEN FALSE ELSE a * den < num * b

IsNaN(r) == r[1] = 0 /\ r[2] = 0
IsInf(r) == r[1] > 0 /\ r[2] = 0

\* r > m for two stored ratios (m is never NaN).
FracGT(r, m) ==
  IF IsNaN(r) \/ IsNaN(m) THEN FALSE
  ELSE IF IsInf(r) THEN ~IsInf(m)
  ELSE IF IsInf(m) THEN FALSE
  ELSE r[1] * m[2] > m[1] * r[2]

-----------------------------------------------------------------------------
(* Line size: the scan of probe_cache_line_size *)

\* Variant of LineLoopEnd that visits the last index as well.
LineLoopEndLast(st) == Len(st)

\* `s < num_strides - 1`: the first index the loop does not visit.
LineLoopEnd(st) == Len(st) - 1

\* growth_before > 1.3 && growth_after < 1.3 at index k.
LineMatch(nt, k) ==
  /\ RatioGT(At(nt, k), At(nt, k - 1), 13, 10)
  /\ RatioLT(At(nt, k + 1), At(nt, k), 13, 10)

\* Variants of LinePick that report a neighbouring stride.
LinePickPrev(st, k) == At(st, k - 1)
LinePickNext(st, k) == At(st, k + 1)

\* detected = strides[s]
LinePick(st, k) == At(st, k)

\* Variant of LineNoMatch that falls back to the end of the sweep.
LineNoMatchEndpoint(st) == At(st, Len(st) - 1)

\* The value returned when the loop ends without a match.
LineNoMatch(st) == LineDefault

RECURSIVE LineScanFrom(_, _, _, _)
LineScanFrom(st, nt, k, rd) ==
  IF k >= LineLoopEnd(st) THEN [detected |-> LineNoMatch(st), reads |-> rd]
  ELSE LET rd2 == rd \cup {k - 1, k, k + 1} IN
       IF LineMatch(nt, k) THEN [detected |-> LinePick(st, k), reads |-> rd2]
       ELSE LineScanFrom(st, nt, k + 1, rd2)

\* cache_info.c: for (s = 2; s < num_strides - 1; s++) over the 8 strides.
LineScan(nt) == LineScanFrom(strides, nt, 2, {})

\* cache_info_cores.c: for (s = 2; s < 5; s++) over the 6 strides; the second
\* ratio is read only when the first comparison holds (&&).
RECURSIVE LineScanCoresFrom(_, _, _)
LineScanCoresFrom(nt, k, rd) ==
  IF k >= 5 THEN [detected |-> LineDefault, reads |-> rd]
  ELSE LET first == RatioGT(At(nt, k), At(nt, k - 1), 13, 10)
           rd2 == rd \cup {k - 1, k} \cup (IF first THEN {k + 1} ELSE {})
       IN IF LineMatch(nt, k)
          THEN [detected |-> LinePick(strides_cores, k), reads |-> rd2]
          ELSE LineScanCoresFrom(nt, k + 1, rd2)

LineScanCores(nt) == LineScanCoresFrom(nt, 2, {})

-----------------------------------------------------------------------------
(* Page size: the scan of probe_page_size *)

\* ratio < 0.6 at index k.
PageMatch(t, k) == RatioLT(At(t, k), At(t, k - 1), 6, 10)

\* `s < num_strides`: the first index the loop does not visit.
PageLoopEnd == Len(page_strides)

RECURSIVE PageScanFrom(_, _, _)
PageScanFrom(t, k, rd) ==
  IF k >= PageLoopEnd THEN [detected |-> PageDefault, reads |-> rd]
  ELSE LET rd2 == rd \cup {k - 1, k} IN
       IF PageMatch(t, k) THEN [detected |-> At(page_strides, k - 1), reads |-> rd2]
       ELSE PageScanFrom(t, k + 1, rd2)

PageScan(t) == PageScanFrom(t, 2, {})

-----------------------------------------------------------------------------
(* TLB entries: the scan of probe_tlb_size *)

\* ratio > 1.25 at index k.
TlbMatch(t, k) == RatioGT(At(t, k), At(t, k - 1), 5, 4)

RECURSIVE TlbScanFrom(_, _, _)
TlbScanFrom(t, k, rd) ==
  IF k >= Len(pages_to_test) THEN [detected |-> TlbDefault, reads |-> rd]
  ELSE LET rd2 == rd \cup {k - 1, k} IN
       IF TlbMatch(t, k) THEN [detected |-> At(pages_to_test, k - 1), reads |-> rd2]
       ELSE TlbScanFrom(t, k + 1, rd2)

TlbScan(t) == TlbScanFrom(t, 1, {})

-----------------------------------------------------------------------------
(* Associativity: the scan of probe_associativity *)

\* Variant of AssocMatch without the comparison against max_ratio.
AssocMatchNoMax(t, k, max_ratio) == RatioGT(At(t, k), At(t, k - 1), 13, 10)

\* ratio > max_ratio && ratio > 1.3 at index k.
AssocMatch(t, k, max_ratio) ==
  /\ FracGT(<<At(t, k), At(t, k - 1)>>, max_ratio)
  /\ RatioGT(At(t, k), At(t, k - 1), 13, 10)

RECURSIVE AssocScanFrom(_, _, _, _, _)
AssocScanFrom(t, k, det, max_ratio, rd) ==
  IF k >= Len(ways_to_test) THEN [detected |-> det, reads |-> rd]
  ELSE LET rd2 == rd \cup {k - 1, k} IN
       IF AssocMatch(t, k, max_ratio)
       THEN AssocScanFrom(t, k + 1, At(ways_to_test, k - 1),
                          <<At(t, k), At(t, k - 1)>>, rd2)
       ELSE AssocScanFrom(t, k + 1, det, max_ratio, rd2)

\* detected = 8, max_ratio = 1.0, for (t = 1; t < num_tests; t++)
AssocScan(t) == AssocScanFrom(t, 1, AssocDefault, <<1, 1>>, {})

-----------------------------------------------------------------------------
(* Cache sizes: the detection loop of probe_cache_sizes *)

\* Variant of SizesStep with three independent `if`s instead of the chain.
SizesStepNoElse(tiers, t, k) ==
  LET prior == At(sizes, k - 1)
      a == At(t, k)
      b == At(t, k - 1)
  IN [l1 |-> IF tiers.l1 = 0 /\ prior <= 192*1024 /\ RatioGT(a, b, 13, 10)
             THEN prior ELSE tiers.l1,
      l2 |-> IF tiers.l2 = 0 /\ prior > 192*1024 /\ prior <= 16*1024*1024
                /\ RatioGT(a, b, 13, 10)
             THEN prior ELSE tiers.l2,
      l3 |-> IF tiers.l3 = 0 /\ prior > 4*1024*1024 /\ RatioGT(a, b, 3, 2)
             THEN prior ELSE tiers.l3]

\* Variant of SizesStep whose L1 branch does not test *l1_size == 0.
SizesStepRelatch(tiers, t, k) ==
  LET prior == At(sizes, k - 1)
      a == At(t, k)
      b == At(t, k - 1)
  IN IF prior <= 192*1024 /\ RatioGT(a, b, 13, 10)
       THEN [tiers EXCEPT !.l1 = prior]
     ELSE IF tiers.l2 = 0 /\ prior > 192*1024 /\ prior <= 16*1024*1024
             /\ RatioGT(a, b, 13, 10)
       THEN [tiers EXCEPT !.l2 = prior]
     ELSE IF tiers.l3 = 0 /\ prior > 4*1024*1024 /\ RatioGT(a, b, 3, 2)
       THEN [tiers EXCEPT !.l3 = prior]
     ELSE tiers

\* One iteration of the loop at index k; tiers is [l1, l2, l3].
SizesStep(tiers, t, k) ==
  LET prior == At(sizes, k - 1)
      a == At(t, k)
      b == At(t, k - 1)
  IN IF tiers.l1 = 0 /\ prior <= 192*1024 /\ RatioGT(a, b, 13, 10)
       THEN [tiers EXCEPT !.l1 = prior]
     ELSE IF tiers.l2 = 0 /\ prior > 192*1024 /\ prior <= 16*1024*1024
             /\ RatioGT(a, b, 13, 10)
       THEN [tiers EXCEPT !.l2 = prior]
     ELSE IF tiers.l3 = 0 /\ prior > 4*1024*1024 /\ RatioGT(a, b, 3, 2)
       THEN [tiers EXCEPT !.l3 = prior]
     ELSE tiers

\* cache_info_cores.c: one iteration of the loop at index k; there is no L3
\* tier and the L2 range has no upper end.
SizesCoresStep(tiers, t, k) ==
  LET prior == At(sizes_cores, k - 1)
      a == At(t, k)
      b == At(t, k - 1)
  IN IF tiers.l1 = 0 /\ prior <= 128*1024 /\ RatioGT(a, b, 13, 10)
       THEN [tiers EXCEPT !.l1 = prior]
     ELSE IF tiers.l2 = 0 /\ prior > 128*1024 /\ RatioGT(a, b, 13, 10)
       THEN [tiers EXCEPT !.l2 = prior]
     ELSE tiers

\* The loop body of the probe_cache_sizes under execution.
SizesStepOf(p, tiers, t, k) ==
  IF p = "sizes" THEN SizesStep(tiers, t, k) ELSE SizesCoresStep(tiers, t, k)

-----------------------------------------------------------------------------
(* The sweep: one measured latency per configuration *)

\* Levels a latency can move to from level v: 1.4 times higher, twice as
\* high, or zero ticks (a timer too coarse to see the loop).
Rise14(v) == IF v = 0 THEN Base ELSE (v * 7) \div 5
Rise20(v) == IF v = 0 THEN Base ELSE v * 2
NextLevels(v) == {Rise14(v), Rise20(v), 0} \ {v}

\* The curve of the end-to-end line-size scenario, in hundredths.
ScenarioCurve == <<100, 100, 105, 140, 142, 100, 100, 100>>

\* A staircase over the cache-size sweep: the level is multiplied by f1/5 at
\* index a, by f2/5 at index b and by f3/5 at index c.
StairCurve(a, b, c, f1, f2, f3) ==
  [k \in 1..Len(sizes) |->
     (Base * (IF k - 1 >= a THEN f1 ELSE 5) * (IF k - 1 >= b THEN f2 ELSE 5)
           * (IF k - 1 >= c THEN f3 ELSE 5)) \div 125]

\* Sweep indices whose prior footprint sizes[k-1] lies in a tier's range.
InL1Range(k) == At(sizes, k - 1) <= 192*1024
InL2Range(k) == At(sizes, k - 1) > 192*1024 /\ At(sizes, k - 1) <= 16*1024*1024
InL3Range(k) == At(sizes, k - 1) > 4*1024*1024
ScanIndices(p) == 1..(Len(Sweep(p)) - 1)

\* The value written to the next curve entry: the timer's outcome, which the
\* program does not control.  At most maxj level changes along one curve.
AppendValue(maxj) ==
  IF times = <<>>
  THEN \/ times' = <<Base>> /\ jumps' = jumps
       \/ maxj > 0 /\ times' = <<0>> /\ jumps' = jumps + 1
  ELSE LET last == times[Len(times)] IN
       \/ times' = Append(times, last) /\ jumps' = jumps
       \/ /\ jumps < maxj
          /\ jumps' = jumps + 1
          /\ \E v \in NextLevels(last) : times' = Append(times, v)

\* One iteration of a probe's sweep loop: times[s] = measured latency.
MeasureStep ==
  /\ pc = "measure"
  /\ measured < Len(Sweep(probe))
  /\ AppendValue(MaxJumps)
  /\ measured' = measured + 1
  /\ UNCHANGED <<probe, pc, alloc_failed, detected, reads>>
  /\ UNCHANGED <<sizeVars, chaseVars, voteVars, tlbVars>>

\* The sweep loop of probe_cache_line_size measuring the scenario's curve.
LineMeasureScenario ==
  /\ pc = "measure"
  /\ probe = "line"
  /\ measured = 0
  /\ times' = ScenarioCurve
  /\ measured' = Len(strides)
  /\ jumps' = 5
  /\ UNCHANGED <<probe, pc, alloc_failed, detected, reads>>
  /\ UNCHANGED <<sizeVars, chaseVars, voteVars, tlbVars>>

\* The sweep loop of probe_cache_sizes measuring a three-tier staircase: one
\* jump inside each of the L1, L2 and L3 footprint ranges.
SizesMeasureThreeTier ==
  /\ pc = "measure"
  /\ probe = "sizes"
  /\ measured = 0
  /\ \E a, b, c \in ScanIndices("sizes") : \E f1, f2 \in {7, 10} :
       /\ a < b /\ b < c
       /\ InL1Range(a) /\ InL2Range(b) /\ InL3Range(c)
       /\ times' = StairCurve(a, b, c, f1, f2, 10)
  /\ measured' = Len(sizes)
  /\ jumps' = 3
  /\ UNCHANGED <<probe, pc, alloc_failed, detected, reads>>
  /\ UNCHANGED <<sizeVars, chaseVars, voteVars, tlbVars>>

SweepDone == Len(times) = Len(Sweep(probe))

\* A probe that returns one integer: its scan, then return detected.
Return(r) ==
  /\ detected' = r.detected
  /\ reads' = r.reads
  /\ pc' = "done"
  /\ UNCHANGED <<probe, curveVars, alloc_failed>>
  /\ UNCHANGED <<sizeVars, chaseVars, voteVars, tlbVars>>

LineDetect ==
  /\ pc = "measure" /\ probe = "line" /\ SweepDone
  /\ \E r \in {LineScan(times)} : Return(r)

LineCoresDetect ==
  /\ pc = "measure" /\ probe = "line_cores" /\ SweepDone
  /\ \E r \in {LineScanCores(times)} : Return(r)

AssocDetect ==
  /\ pc = "measure" /\ probe = "assoc" /\ SweepDone
  /\ \E r \in {AssocScan(times)} : Return(r)

PageDetect ==
  /\ pc = "measure" /\ probe = "page" /\ SweepDone
  /\ \E r \in {PageScan(times)} : Return(r)

TlbDetect ==
  /\ pc = "measure" /\ probe = "tlb" /\ SweepDone
  /\ \E r \in {TlbScan(times)} : Return(r)

\* probe_cache_sizes after its sweep loop (run to its end, or left by `break`):
\* *l1_size = 0; *l2_size = 0; *l3_size = 0; s = 1.  cache_info_cores.c has
\* no l3_size, which stays 0 here.
SizesScanBegin ==
  /\ probe \in SizeProbes
  /\ (pc = "measure" /\ SweepDone) \/ pc = "break"
  /\ l1_size' = 0 /\ l2_size' = 0 /\ l3_size' = 0
  /\ s' = 1
  /\ pc' = "scan"
  /\ UNCHANGED <<probe, curveVars, alloc_failed, detected, reads>>
  /\ UNCHANGED <<unwritten_zero, chaseVars, voteVars, tlbVars>>

\* One iteration of the detection loop of probe_cache_sizes; the function
\* returns when s reaches num_sizes.
SizesScanStep ==
  /\ pc = "scan" /\ probe \in SizeProbes
  /\ s < Len(times)
  /\ \E r \in {SizesStepOf(probe, [l1 |-> l1_size, l2 |-> l2_size, l3 |-> l3_size],
                             times, s)} :
       /\ l1_size' = r.l1
       /\ l2_size' = r.l2
       /\ l3_size' = r.l3
  /\ reads' = reads \cup {s - 1, s}
  /\ s' = s + 1
  /\ pc' = IF s + 1 < Len(Sweep(probe)) THEN "scan" ELSE "done"
  /\ UNCHANGED <<probe, curveVars, alloc_failed, detected>>
  /\ UNCHANGED <<unwritten_zero, chaseVars, voteVars, tlbVars>>

\* State shared by every specification before anything has run.
Idle ==
  /\ times = <<>> /\ jumps = 0 /\ measured = 0
  /\ alloc_failed = FALSE
  /\ detected = 0
  /\ l1_size = 0 /\ l2_size = 0 /\ l3_size = 0 /\ s = 0
  /\ unwritten_zero = FALSE
  /\ reads = {}
  /\ count = 0 /\ array = <<>> /\ i = 0
  /\ results = <<>> /\ tlb_size = 0
  /\ page_size = 0 /\ num_pages = 0 /\ order = <<>>
  /\ idx = 0 /\ accessed = 0 /\ iter = 0

Init ==
  /\ probe \in Probes
  /\ pc = "measure"
  /\ Idle

Next ==
  \/ MeasureStep
  \/ LineMeasureScenario
  \/ SizesMeasureThreeTier
  \/ LineDetect
  \/ LineCoresDetect
  \/ SizesScanBegin
  \/ SizesScanStep
  \/ AssocDetect
  \/ PageDetect
  \/ TlbDetect

Spec == Init /\ [][Next]_vars

-----------------------------------------------------------------------------
(* Allocation failures inside the probes *)

DefaultOf(p) ==
  CASE p \in {"line", "line_cores"} -> LineDefault
    [] p = "assoc" -> AssocDefault
    [] p = "page" -> PageDefault
    [] p = "tlb" -> TlbDefault

\* malloc of the probe's main array returns NULL: `if (!array) return <default>`.
MainAllocFail ==
  /\ pc = "measure"
  /\ probe \in {"line", "line_cores", "assoc", "page", "tlb"}
  /\ measured = 0
  /\ alloc_failed' = TRUE
  /\ detected' = DefaultOf(probe)
  /\ pc' = "done"
  /\ UNCHANGED <<probe, curveVars, reads>>
  /\ UNCHANGED <<sizeVars, chaseVars, voteVars, tlbVars>>

\* probe_cache_sizes (both files): malloc(size) of a footprint's array returns
\* NULL: `if (!array) break;` leaves the sweep loop with times[s..] never
\* written.
SizesAllocFail ==
  /\ pc = "measure"
  /\ probe \in SizeProbes
  /\ measured < Len(Sweep(probe))
  /\ alloc_failed' = TRUE
  /\ pc' = "break"
  /\ UNCHANGED <<probe, curveVars, detected, reads>>
  /\ UNCHANGED <<sizeVars, chaseVars, voteVars, tlbVars>>

\* What the never-written entry times[k] may hold next to its neighbour
\* holding v: any double.  The comparisons see the ratio only, so one value
\* stands for each outcome of `ratio > 1.3` and `ratio > 1.5`: the same
\* value, one 1.4 times higher, one twice as high, and 0.0.
UnwrittenValues(v) == {v} \cup NextLevels(v)

\* The entry times[k - 1] as iteration k of the scan reads it: the measured
\* value, or for a never-written entry a value on the scale of Base, which
\* keeps what the iteration before read of it: zero or not.
PriorValues(k) ==
  IF k - 1 < Len(times) THEN {At(times, k - 1)}
  ELSE IF k = 1 THEN {0, Base}
  ELSE {IF unwritten_zero THEN 0 ELSE Base}

\* One iteration of the detection loop that reads a never-written times[s].
UninitScanStep ==
  /\ pc = "scan" /\ probe \in SizeProbes
  /\ s >= Len(times) /\ s < Len(Sweep(probe))
  /\ \E prev \in PriorValues(s) : \E cur \in UnwrittenValues(prev) :
       \E r \in {SizesStepOf(probe, [l1 |-> l1_size, l2 |-> l2_size, l3 |-> l3_size],
                              [j \in 1..(s + 1) |-> IF j = s + 1 THEN cur ELSE prev],
                              s)} :
         /\ l1_size' = r.l1
         /\ l2_size' = r.l2
         /\ l3_size' = r.l3
         /\ unwritten_zero' = (cur = 0)
  /\ reads' = reads \cup {s - 1, s}
  /\ s' = s + 1
  /\ pc' = IF s + 1 < Len(Sweep(probe)) THEN "scan" ELSE "done"
  /\ UNCHANGED <<probe, curveVars, alloc_failed, detected>>
  /\ UNCHANGED <<chaseVars, voteVars, tlbVars>>

\* create_pointer_chase, called from the sweep of probe_cache_sizes: calloc of
\* visited or malloc of chase returns NULL and is written through unchecked.
\* The write through NULL is undefined: the process is killed, or (visited[]
\* is never read, so a build may drop its stores) the sweep goes on.
ChaseAllocFail ==
  /\ pc = "measure"
  /\ probe = "sizes"
  /\ measured < Len(sizes)
  /\ alloc_failed' = TRUE
  /\ pc' \in {"crashed", "measure"}
  /\ UNCHANGED <<probe, curveVars, detected, reads>>
  /\ UNCHANGED <<sizeVars, chaseVars, voteVars, tlbVars>>

\* probe_tlb_size: malloc of order returns NULL and order[i] = i is written
\* through it unchecked.
TlbOrderAllocFail ==
  /\ pc = "measure"
  /\ probe = "tlb"
  /\ measured < Len(pages_to_test)
  /\ alloc_failed' = TRUE
  /\ pc' = "crashed"
  /\ UNCHANGED <<probe, curveVars, detected, reads>>
  /\ UNCHANGED <<sizeVars, chaseVars, voteVars, tlbVars>>

NextAlloc ==
  \/ MeasureStep
  \/ MainAllocFail
  \/ SizesAllocFail
  \/ UninitScanStep
  \/ ChaseAllocFail
  \/ TlbOrderAllocFail
  \/ LineDetect
  \/ LineCoresDetect
  \/ SizesScanBegin
  \/ SizesScanStep
  \/ AssocDetect
  \/ PageDetect
  \/ TlbDetect

SpecAlloc == Init /\ [][NextAlloc]_vars

-----------------------------------------------------------------------------
(* create_pointer_chase *)

InArray(k) == k \in 0..(count - 1)

\* array[i] = (i + 1) % count for every i.
Successors(c) == [k \in 0..(c - 1) |-> (k + 1) % c]

Swap(arr, a, b) == [arr EXCEPT ![a] = arr[b], ![b] = arr[a]]

\* What an element of the malloc'ed chase[] may hold before it is written:
\* any index of the array, or a value outside it (count stands for those).
GarbageVals == 0..count

\* cache_info.c: pos = 0; for i: chase[pos] = array[i]; pos = array[i].
RECURSIVE RethreadFrom(_, _, _, _)
RethreadFrom(arr, chase, k, pos) ==
  IF k >= count THEN chase
  ELSE RethreadFrom(arr, [chase EXCEPT ![pos] = arr[k]], k + 1, arr[k])

\* create_pointer_chase(array, count) is entered and runs its first loop.
ChaseFill ==
  /\ pc = "call"
  /\ \E c \in 1..MaxCount :
       /\ count' = c
       /\ array' = Successors(c)
       /\ i' = c - 1
  /\ pc' = "shuffle"
  /\ UNCHANGED <<probe, curveVars, alloc_failed, detected, reads>>
  /\ UNCHANGED <<sizeVars, voteVars, tlbVars>>

\* One iteration of the shuffle: j = rand() % (i + 1); swap array[i], array[j].
ShuffleStep ==
  /\ pc = "shuffle"
  /\ i > 0
  /\ \E j \in 0..i : array' = Swap(array, i, j)
  /\ i' = i - 1
  /\ UNCHANGED <<probe, pc, count, curveVars, alloc_failed, detected, reads>>
  /\ UNCHANGED <<sizeVars, voteVars, tlbVars>>

\* cache_info_cores.c: the function returns after the shuffle.
ChaseCoresReturn ==
  /\ pc = "shuffle" /\ probe = "chase_cores"
  /\ i = 0
  /\ pc' = "done"
  /\ UNCHANGED <<probe, curveVars, alloc_failed, detected, reads>>
  /\ UNCHANGED <<sizeVars, chaseVars, voteVars, tlbVars>>

\* cache_info.c: chase[] is allocated, threaded along array[] from position 0
\* and copied back over array[].
ChaseRethread ==
  /\ pc = "shuffle" /\ probe = "chase"
  /\ i = 0
  /\ \E garbage \in [0..(count - 1) -> GarbageVals] :
       array' = RethreadFrom(array, garbage, 0, 0)
  /\ pc' = "done"
  /\ UNCHANGED <<probe, count, i, curveVars, alloc_failed, detected, reads>>
  /\ UNCHANGED <<sizeVars, voteVars, tlbVars>>

\* idx = array[idx] in probe_cache_sizes.  With idx outside the array the
\* read is out of bounds: the process is killed, or the read yields whatever
\* lies there.
ChaseAccess ==
  IF InArray(idx)
  THEN idx' = array[idx] /\ pc' = pc
  ELSE \/ pc' = "crashed" /\ idx' = idx
       \/ pc' = pc /\ idx' \in GarbageVals

\* Accesses of the warm-up walk: count in cache_info.c, count * 2 in
\* cache_info_cores.c; of a timed walk: count * 4 in both.
WarmupAccesses == IF probe = "chase" THEN count ELSE count * 2
TimedAccesses == count * 4
\* Timed walks: ITERATIONS = 5 in cache_info.c, one in cache_info_cores.c.
TimedWalks == IF probe = "chase" THEN 5 ELSE 1

\* One access of the warm-up walk, which starts at idx = 0 once
\* create_pointer_chase has returned.
ChaseWarmStep ==
  /\ pc = "done"
  /\ accessed < WarmupAccesses
  /\ ChaseAccess
  /\ accessed' = accessed + 1
  /\ UNCHANGED <<probe, chaseVars, page_size, num_pages, order, iter>>
  /\ UNCHANGED <<curveVars, alloc_failed, detected, reads, sizeVars, voteVars>>

\* A timed walk begins; cache_info.c restarts it at idx = 0.
ChaseTimedBegin ==
  /\ \/ /\ pc = "done"
        /\ accessed = WarmupAccesses
        /\ iter' = 0
     \/ /\ pc = "timed"
        /\ accessed = TimedAccesses
        /\ iter + 1 < TimedWalks
        /\ iter' = iter + 1
  /\ idx' = IF probe = "chase" THEN 0 ELSE idx
  /\ accessed' = 0
  /\ pc' = "timed"
  /\ UNCHANGED <<probe, chaseVars, page_size, num_pages, order>>
  /\ UNCHANGED <<curveVars, alloc_failed, detected, reads, sizeVars, voteVars>>

\* One access of a timed walk.
ChaseTimedStep ==
  /\ pc = "timed"
  /\ accessed < TimedAccesses
  /\ ChaseAccess
  /\ accessed' = accessed + 1
  /\ UNCHANGED <<probe, chaseVars, page_size, num_pages, order, iter>>
  /\ UNCHANGED <<curveVars, alloc_failed, detected, reads, sizeVars, voteVars>>

InitChase ==
  /\ probe \in {"chase", "chase_cores"}
  /\ pc = "call"
  /\ Idle

NextChase ==
  \/ ChaseFill
  \/ ShuffleStep
  \/ ChaseCoresReturn
  \/ ChaseRethread
  \/ ChaseWarmStep
  \/ ChaseTimedBegin
  \/ ChaseTimedStep

SpecChase == InitChase /\ [][NextChase]_vars

-----------------------------------------------------------------------------
(* tlb_info.c main: ten runs of probe_tlb_size and the vote *)

\* Values a run of probe_tlb_size returns here: candidates of pages_to_test.
VoteVals == {At(pages_to_test, k) : k \in 3..(2 + NumVoteVals)}

\* The ten results of the majority-vote scenario.
ScenarioResults == <<64, 64, 128, 64, 64, 64, 32, 64, 64, 128>>

\* count: the number of j < 10 with results[j] == v.
Occurrences(res, v) == Cardinality({j \in 0..(NumTrials - 1) : At(res, j) = v})

\* Variant of VotePrefer that also replaces the candidate on an equal count.
VotePreferLast(cnt, max_count) == cnt >= max_count

\* if (count > max_count)
VotePrefer(cnt, max_count) == cnt > max_count

RECURSIVE VoteFrom(_, _, _, _)
VoteFrom(res, k, tlb, max_count) ==
  IF k >= NumTrials THEN tlb
  ELSE LET cnt == Occurrences(res, At(res, k)) IN
       IF VotePrefer(cnt, max_count)
       THEN VoteFrom(res, k + 1, At(res, k), cnt)
       ELSE VoteFrom(res, k + 1, tlb, max_count)

\* tlb_size = results[0]; max_count = 1; for (i = 0; i < 10; i++) ...
Vote(res) == VoteFrom(res, 0, At(res, 0), 1)

\* results[i] = probe_tlb_size(page_size)
RunTrial ==
  /\ pc = "trials"
  /\ Len(results) < NumTrials
  /\ \E r \in VoteVals : results' = Append(results, r)
  /\ UNCHANGED <<probe, pc, tlb_size, curveVars, alloc_failed, detected, reads>>
  /\ UNCHANGED <<sizeVars, chaseVars, tlbVars>>

\* The ten runs return the results of the scenario.
RunScenarioTrials ==
  /\ pc = "trials"
  /\ results = <<>>
  /\ results' = ScenarioResults
  /\ UNCHANGED <<probe, pc, tlb_size, curveVars, alloc_failed, detected, reads>>
  /\ UNCHANGED <<sizeVars, chaseVars, tlbVars>>

\* The vote over results[0..9].
MainVote ==
  /\ pc = "trials"
  /\ Len(results) = NumTrials
  /\ tlb_size' = Vote(results)
  /\ pc' = "done"
  /\ UNCHANGED <<probe, results, curveVars, alloc_failed, detected, reads>>
  /\ UNCHANGED <<sizeVars, chaseVars, tlbVars>>

InitVote ==
  /\ probe = "vote"
  /\ pc = "trials"
  /\ Idle

NextVote ==
  \/ RunTrial
  \/ RunScenarioTrials
  \/ MainVote

SpecVote == InitVote /\ [][NextVote]_vars

-----------------------------------------------------------------------------
(* probe_tlb_size: the page chase built for one page count of the sweep *)

\* const int ITERATIONS = 5; the warm-up makes num_pages * 4 accesses and a
\* timed traversal num_pages * 200.
TlbIterations == 5
WarmupPerPage == 4
AccessesPerPage == 200

\* The values probe_page_size returns, which main passes on as page_size.
PageSizes ==
  {PageDefault} \cup {At(page_strides, k - 1) : k \in 2..(Len(page_strides) - 1)}

\* What the word at the start of a page may hold before the chase is written:
\* a page offset, an offset inside a page, an offset past the pages under test.
GarbageOffsets == {0, 1, num_pages * page_size}

\* for (i = 0; i < num_pages - 1; i++)
\*   *(size_t *)(array + order[i] * page_size) = order[i + 1] * page_size;
RECURSIVE LinkFrom(_, _, _)
LinkFrom(mem, ord, k) ==
  IF k >= num_pages - 1 THEN mem
  ELSE LinkFrom([mem EXCEPT ![ord[k]] = ord[k + 1] * page_size], ord, k + 1)

\* Variant of LinkPages without the store that closes the chain.
LinkPagesNoClose(mem, ord) == LinkFrom(mem, ord, 0)

\* The linking loop and the closing store
\*   *(size_t *)(array + order[num_pages - 1] * page_size) = order[0] * page_size.
LinkPages(mem, ord) ==
  [LinkFrom(mem, ord, 0) EXCEPT ![ord[num_pages - 1]] = ord[0] * page_size]

\* The byte offset off is the start of one of the pages under test.
OnPage(off) ==
  /\ off % page_size = 0
  /\ (off \div page_size) \in 0..(num_pages - 1)

\* *(size_t *)(array + off) for the start off of a page under test: the word
\* stored there.
PageWord(mem, off) == mem[off \div page_size]

\* idx = *(size_t *)(array + idx).  From an offset that is no page start under
\* test the read yields a word the chase never wrote, or, past the end of the
\* array, kills the process.
PageAccess ==
  IF OnPage(idx)
  THEN idx' = PageWord(array, idx) /\ pc' = pc
  ELSE \/ pc' = "crashed" /\ idx' = idx
       \/ pc' = pc /\ idx' \in GarbageOffsets

\* One iteration of the sweep begins: order[i] = i for every i.  The page
\* counts of the sweep are scaled down to 1..MaxPages.
TlbOrderFill ==
  /\ pc = "call"
  /\ \E ps \in PageSizes, n \in 1..MaxPages :
       /\ page_size' = ps
       /\ num_pages' = n
       /\ order' = [k \in 0..(n - 1) |-> k]
       /\ i' = n - 1
  /\ pc' = "shuffle"
  /\ UNCHANGED <<probe, count, array, idx, accessed, iter>>
  /\ UNCHANGED <<curveVars, alloc_failed, detected, reads, sizeVars, voteVars>>

\* One iteration of the shuffle: j = rand() % (i + 1); swap order[i], order[j].
TlbShuffleStep ==
  /\ pc = "shuffle"
  /\ i > 0
  /\ \E j \in 0..i : order' = Swap(order, i, j)
  /\ i' = i - 1
  /\ UNCHANGED <<probe, pc, count, array, page_size, num_pages, idx, accessed, iter>>
  /\ UNCHANGED <<curveVars, alloc_failed, detected, reads, sizeVars, voteVars>>

\* The chase is written into the pages and the warm-up starts at order[0].
TlbLink ==
  /\ pc = "shuffle"
  /\ i = 0
  /\ \E garbage \in [0..(num_pages - 1) -> GarbageOffsets] :
       array' = LinkPages(garbage, order)
  /\ idx' = order[0] * page_size
  /\ accessed' = 0
  /\ pc' = "warm"
  /\ UNCHANGED <<probe, count, i, page_size, num_pages, order, iter>>
  /\ UNCHANGED <<curveVars, alloc_failed, detected, reads, sizeVars, voteVars>>

\* One access of the warm-up: idx = *(size_t *)(array + idx).
TlbWarmStep ==
  /\ pc = "warm"
  /\ accessed < num_pages * WarmupPerPage
  /\ PageAccess
  /\ accessed' = accessed + 1
  /\ UNCHANGED <<probe, count, array, i, page_size, num_pages, order, iter>>
  /\ UNCHANGED <<curveVars, alloc_failed, detected, reads, sizeVars, voteVars>>

\* A timed traversal begins: idx = order[0] * page_size.
TlbTimedBegin ==
  /\ \/ /\ pc = "warm"
        /\ accessed = num_pages * WarmupPerPage
        /\ iter' = 0
     \/ /\ pc = "timed"
        /\ accessed = num_pages * AccessesPerPage
        /\ iter + 1 < TlbIterations
        /\ iter' = iter + 1
  /\ idx' = order[0] * page_size
  /\ accessed' = 0
  /\ pc' = "timed"
  /\ UNCHANGED <<probe, count, array, i, page_size, num_pages, order>>
  /\ UNCHANGED <<curveVars, alloc_failed, detected, reads, sizeVars, voteVars>>

\* One access of a timed traversal.
TlbTimedStep ==
  /\ pc = "timed"
  /\ accessed < num_pages * AccessesPerPage
  /\ PageAccess
  /\ accessed' = accessed + 1
  /\ UNCHANGED <<probe, count, array, i, page_size, num_pages, order, iter>>
  /\ UNCHANGED <<curveVars, alloc_failed, detected, reads, sizeVars, voteVars>>

\* The last timed traversal has ended: times[t] is computed, order is freed.
TlbChaseDone ==
  /\ pc = "timed"
  /\ accessed = num_pages * AccessesPerPage
  /\ iter + 1 = TlbIterations
  /\ pc' = "done"
  /\ UNCHANGED <<probe, chaseVars, tlbVars>>
  /\ UNCHANGED <<curveVars, alloc_failed, detected, reads, sizeVars, voteVars>>

InitTlbChase ==
  /\ probe = "tlb_chase"
  /\ pc = "call"
  /\ Idle

NextTlbChase ==
  \/ TlbOrderFill
  \/ TlbShuffleStep
  \/ TlbLink
  \/ TlbWarmStep
  \/ TlbTimedBegin
  \/ TlbTimedStep
  \/ TlbChaseDone

SpecTlbChase == InitTlbChase /\ [][NextTlbChase]_vars

-----------------------------------------------------------------------------
(* Properties of the detectors, checked under Spec *)

Done == pc = "done"
NumConfigs == Len(Sweep(probe))
LineProbes == {"line", "line_cores"}

\* The consecutive ratio at index k exceeds 1.3, 1.25, 1.5; is below 0.6.
Above13(t, k) == RatioGT(At(t, k), At(t, k - 1), 13, 10)
Above125(t, k) == RatioGT(At(t, k), At(t, k - 1), 5, 4)
Above15(t, k) == RatioGT(At(t, k), At(t, k - 1), 3, 2)
Below06(t, k) == RatioLT(At(t, k), At(t, k - 1), 6, 10)

IsFlat(t) == \A k \in DOMAIN t : t[k] = t[1]

\* t is constant before index k and constant, more than 1.3 times higher,
\* from index k on.
IsStep(t, k) ==
  /\ \A j \in 0..(k - 1) : At(t, j) = At(t, 0)
  /\ \A j \in k..(Len(t) - 1) : At(t, j) = At(t, k)
  /\ At(t, k) * 10 > 13 * At(t, 0)

\* C2 as stated: a single step change at index k is reported as the stride
\* at sweep index k-1, however many entries follow k.
C2_StepDetectedBeforeK ==
  (Done /\ probe \in LineProbes) =>
    \A k \in ScanIndices(probe) :
      IsStep(times, k) => detected = At(Sweep(probe), k - 1)

\* C2, amended: a single step change at index k is reported as the stride at
\* sweep index k when 2 <= k <= num_strides - 2, and as the default 64 when
\* k = 1 or when no entry follows k.
C2_StepDetectedAtK ==
  (Done /\ probe \in LineProbes) =>
    \A k \in ScanIndices(probe) :
      IsStep(times, k) =>
        detected = IF 2 <= k /\ k <= NumConfigs - 2
                   THEN At(Sweep(probe), k) ELSE LineDefault

C2_Witness ==
  /\ Done /\ probe = "line_cores"
  /\ IsStep(times, 4)
  /\ detected = 128

\* C3 as stated: the scenario's curve makes probe_cache_line_size return 128.
C3_ScenarioReturns128 ==
  (Done /\ probe = "line" /\ times = ScenarioCurve) => detected = 128

\* C3, amended: the scenario's curve makes probe_cache_line_size return 64,
\* the stride at index 3, where the scan matches first.
C3_ScenarioReturns64 ==
  (Done /\ probe = "line" /\ times = ScenarioCurve) =>
    /\ detected = 64
    /\ detected = At(strides, 3)
    /\ LineMatch(times, 3) /\ ~LineMatch(times, 2)

C3_Witness ==
  Done /\ probe = "line" /\ times = ScenarioCurve /\ detected = 64

\* Index k satisfies the range and ratio condition of a tier.
L1Qual(t, k) == InL1Range(k) /\ Above13(t, k)
L2Qual(t, k) == InL2Range(k) /\ Above13(t, k)
L3Qual(t, k) == InL3Range(k) /\ Above15(t, k)

\* C4: after the detection scan the detected tiers are strictly ordered
\* l1 < l2 < l3, and a tier no sweep index qualifies for is 0.
C4_TiersOrdered ==
  (Done /\ probe = "sizes") =>
    /\ (l1_size # 0 /\ l2_size # 0) => l1_size < l2_size
    /\ (l2_size # 0 /\ l3_size # 0) => l2_size < l3_size
    /\ (l1_size # 0 /\ l3_size # 0) => l1_size < l3_size
    /\ (~\E k \in ScanIndices("sizes") : L1Qual(times, k)) => l1_size = 0
    /\ (~\E k \in ScanIndices("sizes") : L2Qual(times, k)) => l2_size = 0
    /\ (~\E k \in ScanIndices("sizes") : L3Qual(times, k)) => l3_size = 0

C4_Witness ==
  /\ Done /\ probe = "sizes"
  /\ l1_size # 0 /\ l2_size # 0 /\ l3_size # 0

\* No consecutive ratio of the curve satisfies the probe's threshold.
NoThreshold(p, t) ==
  \A k \in ScanIndices(p) :
    CASE p \in LineProbes \cup {"assoc"} \cup SizeProbes -> ~Above13(t, k)
      [] p = "tlb" -> ~Above125(t, k)
      [] p = "page" -> ~Below06(t, k)

\* The probe has returned its built-in default.
ReturnedDefault ==
  CASE probe \in LineProbes -> detected = LineDefault
    [] probe = "assoc" -> detected = AssocDefault
    [] probe = "page" -> detected = PageDefault
    [] probe = "tlb" -> detected = TlbDefault
    [] probe \in SizeProbes -> l1_size = 0 /\ l2_size = 0 /\ l3_size = 0

\* C5: on a flat curve, and on any curve none of whose consecutive ratios
\* satisfies the threshold, every detector returns its default.
C5_DefaultFallback ==
  (Done /\ (IsFlat(times) \/ NoThreshold(probe, times))) => ReturnedDefault

C5_Witness ==
  Done /\ probe = "line" /\ IsFlat(times) /\ detected = LineDefault

\* C7: every scan reads curve indices inside the sweep only and returns a
\* value of its candidate list or its default (0 for a cache-size tier).
C7_InRange ==
  /\ reads \subseteq 0..(NumConfigs - 1)
  /\ Done =>
       IF probe \in SizeProbes
       THEN {l1_size, l2_size, l3_size} \subseteq Range(Sweep(probe)) \cup {0}
       ELSE /\ detected \in Range(Sweep(probe)) \cup
                 {LineDefault, AssocDefault, PageDefault, TlbDefault}
            /\ detected \in Range(Sweep(probe)) \/ ReturnedDefault

C7_Witness ==
  /\ Done /\ probe = "page"
  /\ 0 \in Range(times)
  /\ reads # {}
  /\ detected # PageDefault

\* The ratio at index k is larger than the ratio at every other index.
SingleLargest(t, k) ==
  /\ ~IsNaN(<<At(t, k), At(t, k - 1)>>)
  /\ \A u \in 1..(Len(t) - 1) \ {k} :
       \/ IsNaN(<<At(t, u), At(t, u - 1)>>)
       \/ FracGT(<<At(t, k), At(t, k - 1)>>, <<At(t, u), At(t, u - 1)>>)

\* Index k is the first one whose ratio exceeds 1.25.
FirstAbove125(t, k) == Above125(t, k) /\ \A u \in 1..(k - 1) : ~Above125(t, u)

\* C9 as stated: both detectors return the configuration before the single
\* largest ratio, provided it exceeds the threshold.
C9_BothGlobalMax ==
  Done =>
    /\ probe = "assoc" =>
         \A k \in ScanIndices("assoc") :
           (SingleLargest(times, k) /\ Above13(times, k)) =>
             detected = At(ways_to_test, k - 1)
    /\ probe = "tlb" =>
         \A k \in ScanIndices("tlb") :
           (SingleLargest(times, k) /\ Above125(times, k)) =>
             detected = At(pages_to_test, k - 1)

\* C9, amended: the associativity detector returns the way-count before the
\* single largest ratio, provided it exceeds 1.3; the TLB detector returns the
\* page count before the first ratio that exceeds 1.25.
C9_AssocMaxTlbFirst ==
  Done =>
    /\ probe = "assoc" =>
         \A k \in ScanIndices("assoc") :
           (SingleLargest(times, k) /\ Above13(times, k)) =>
             detected = At(ways_to_test, k - 1)
    /\ probe = "tlb" =>
         \A k \in ScanIndices("tlb") :
           FirstAbove125(times, k) => detected = At(pages_to_test, k - 1)

C9_Witness ==
  /\ Done /\ probe = "tlb"
  /\ \E k, u \in ScanIndices("tlb") :
       /\ k < u
       /\ FirstAbove125(times, k)
       /\ SingleLargest(times, u)
       /\ detected = At(pages_to_test, k - 1)

Min(S) == CHOOSE x \in S : \A y \in S : x <= y

\* The prior footprint of the first index of S, 0 when S is empty.
FirstPrior(S) == IF S = {} THEN 0 ELSE At(sizes, Min(S) - 1)

L1Set(t) == {k \in ScanIndices("sizes") : L1Qual(t, k)}
L2Set(t) == {k \in ScanIndices("sizes") : L2Qual(t, k)}
L3Set(t) == {k \in ScanIndices("sizes") : L3Qual(t, k)}

\* Qualifying L3 indices the L2 branch does not take: the prior footprint is
\* above 16MiB, or L2 was latched at an earlier index.
L3FreeSet(t) ==
  {k \in L3Set(t) : ~InL2Range(k) \/ \E u \in L2Set(t) : u < k}

\* A tier that is nonzero keeps its value in every step.
LatchStep ==
  /\ l1_size # 0 => l1_size' = l1_size
  /\ l2_size # 0 => l2_size' = l2_size
  /\ l3_size # 0 => l3_size' = l3_size

\* C10 as stated: each tier is the prior footprint of the first jump that
\* qualifies for it; for L3, the first jump with ratio > 1.5 above 4MiB.
C10_FirstQualifyingJump ==
  (Done /\ probe = "sizes") =>
    /\ L1Set(times) # {} => l1_size = FirstPrior(L1Set(times))
    /\ L2Set(times) # {} => l2_size = FirstPrior(L2Set(times))
    /\ L3Set(times) # {} => l3_size = FirstPrior(L3Set(times))

\* The tiers at the end of the scan, as amended for L3.
FinalTiers ==
  (Done /\ probe = "sizes") =>
    /\ l1_size = FirstPrior(L1Set(times))
    /\ l2_size = FirstPrior(L2Set(times))
    /\ l3_size = FirstPrior(L3FreeSet(times))

\* C10, amended: during the scan a tier never changes once it is nonzero; L1
\* and L2 are the prior footprints of the first jumps qualifying for them, and
\* L3 is the prior footprint of the first jump with ratio > 1.5 above 4MiB that
\* the L2 branch does not take (prior footprint above 16MiB, or L2 latched at
\* an earlier index).
C10_LatchedOnce == [][LatchStep]_vars /\ []FinalTiers

C10_Witness ==
  /\ Done /\ probe = "sizes"
  /\ l3_size # 0
  /\ l3_size # FirstPrior(L3Set(times))
  /\ l2_size = FirstPrior(L3Set(times))

-----------------------------------------------------------------------------
(* The pointer chase, checked under SpecChase *)

\* Every element of the array is an index of the array.
Closed == \A k \in 0..(count - 1) : InArray(array[k])

\* The indices reached from at by n steps of idx = array[idx], in a closed
\* array.
RECURSIVE Walk(_, _)
Walk(at, n) == IF n = 0 THEN <<>> ELSE <<array[at]>> \o Walk(array[at], n - 1)

\* From every start, count steps visit every index once and end at the start.
SingleCycle ==
  /\ Closed
  /\ \A start \in 0..(count - 1) :
       LET path == Walk(start, count) IN
         /\ Range(path) = 0..(count - 1)
         /\ path[count] = start

\* C1: after create_pointer_chase, in both variants and for every shuffle
\* outcome, the successor array is one single cycle over all count elements.
C1_SingleCycle == Done => SingleCycle

-----------------------------------------------------------------------------
(* The vote, checked under SpecVote *)

\* Index of the first occurrence of v in results.
FirstAt(v) == Min({j \in 0..(NumTrials - 1) : At(results, j) = v})

\* C6: the vote reports a value with the maximal number of occurrences among
\* the ten results, the one occurring first among those with that number; for
\* the scenario's results it reports 64.
C6_ModeFirstWins ==
  Done =>
    /\ tlb_size \in Range(results)
    /\ \A v \in Range(results) :
         /\ Occurrences(results, v) <= Occurrences(results, tlb_size)
         /\ Occurrences(results, v) = Occurrences(results, tlb_size) =>
              FirstAt(tlb_size) <= FirstAt(v)
    /\ results = ScenarioResults => tlb_size = 64

C6_Witness ==
  /\ Done
  /\ \E v \in Range(results) :
       /\ v # tlb_size
       /\ Occurrences(results, v) = Occurrences(results, tlb_size)
       /\ FirstAt(tlb_size) < FirstAt(v)

-----------------------------------------------------------------------------
(* Allocation failures, checked under SpecAlloc *)

\* C8: a probe in which an allocation failed does not abort and returns its
\* built-in default.
C8_AllocFailureDefault ==
  alloc_failed =>
    /\ pc # "crashed"
    /\ Done => ReturnedDefault

-----------------------------------------------------------------------------
(* The page chase of probe_tlb_size, checked under SpecTlbChase *)

Linked == pc \in {"warm", "timed", "done", "crashed"}

\* The offsets reached from off by n accesses, in order.
RECURSIVE PageWalk(_, _)
PageWalk(off, n) ==
  IF n = 0 THEN <<>>
  ELSE <<PageWord(array, off)>> \o PageWalk(PageWord(array, off), n - 1)

\* The word of every page under test is the start of a page under test.
PagesClosed == \A p \in 0..(num_pages - 1) : OnPage(array[p])

PageOffsets == {p * page_size : p \in 0..(num_pages - 1)}

\* C11: for every page count and shuffle outcome the offsets stored at the
\* start of pages 0..n-1 are multiples of page_size below n * page_size and
\* link the pages into one cycle: n accesses from order[0] * page_size visit
\* each page once and end at the start; the warm-up and the timed traversals
\* stand on one of the n pages at every access.
C11_PagesSingleCycle ==
  Linked =>
    /\ PagesClosed
    /\ \A p \in 0..(num_pages - 1) :
         /\ array[p] % page_size = 0
         /\ array[p] >= 0 /\ array[p] < num_pages * page_size
    /\ LET path == PageWalk(order[0] * page_size, num_pages) IN
         /\ Range(path) = PageOffsets
         /\ path[num_pages] = order[0] * page_size
    /\ OnPage(idx)

C11_Witness ==
  /\ pc = "timed" /\ iter > 0
  /\ num_pages >= 3
  /\ order # [k \in 0..(num_pages - 1) |-> k]
  /\ accessed > num_pages
  /\ idx # order[0] * page_size

=============================================================================
